---- MODULE Spec2Model ----
(***************************************************************************)
(* Notepad session locator and lifecycle terminator                        *)
(* (src/activities/notepad.py) and the scheduling loop that drives them    *)
(* (src/simulate_activity.py) as a state machine.                          *)
(*                                                                         *)
(* The program's functions run as step sequences over a shared desktop:    *)
(* the top-level windows (in EnumWindows order), the processes started by  *)
(* open_notepad, the tab ring of the Notepad application and a clock.      *)
(* Strings are sequences of tokens; Python's `x in s` is Contains(x, s).   *)
(* The desktop changes between any two steps of the program.               *)
(***************************************************************************)
EXTENDS Integers, Sequences, FiniteSets, TLC

VARIABLES
    win32_available, \* the module-level flag set by the import of win32gui
    windows,         \* top-level windows of the desktop, in EnumWindows order
    procs,           \* state of each subprocess.Popen object open_notepad made
    tabs,            \* tab titles of the Notepad application
    cur,             \* index of the active tab
    now,             \* time.time(), in poll intervals, from the start of a call
    pc,              \* the statement the program is at
    stack,           \* return labels of the callers
    top,             \* the function the outer caller invoked
    en,              \* locals of ensure_notepad
    tb,              \* locals of ensure_notepad_tab
    cl,              \* locals of close_notepad
    ret,             \* the last return (or raise) of a function
    eobs,            \* what the running/last ensure_notepad call did
    obs,             \* what the running/last top-level call did
    prev,            \* handle the previous ensure_notepad_tab call returned at once,
                     \* while the desktop is as that call left it
    args,            \* simulate_activity.main: the parsed command line
    stop_event,      \* simulate_activity.main: whether the threading.Event is set
    t                \* simulate_activity.main: the thread that runs run_loop

vars == <<win32_available, windows, procs, tabs, cur, now, pc, stack, top,
          en, tb, cl, ret, eobs, obs, prev, args, stop_event, t>>

env == <<win32_available, windows, procs, tabs, cur>>

sim == <<args, stop_event, t>>

-----------------------------------------------------------------------------
(* Bounds of the model *)

\* Popen objects open_notepad can create in one behaviour
MaxProcs == 1

\* largest timeout argument, in poll intervals
MaxTimeout == 2

\* longest tab ring whose cycling the desktop's changes are interleaved with
MaxRing == 3

None == 0

-----------------------------------------------------------------------------
(* Strings *)

\* Python's `sub in s`
Contains(sub, s) ==
    \E i \in 0..Len(s) :
        /\ i + Len(sub) <= Len(s)
        /\ SubSeq(s, i + 1, i + Len(sub)) = sub

\* the default marker of ensure_notepad_tab
DefaultMarker == <<"[Activity", " Simulation]">>

Untitled == <<"Untitled">>
Notes == <<"Notes">>
Log == DefaultMarker \o <<" - Log">>
Draft == <<"[Activity", " Log">>

max_tabs == 50

\* a ring of n tabs with pairwise distinct titles, none with the marker
Distinct(n) == [i \in 1..n |-> <<"Tab ", ToString(i)>>]

\* Tab rings the Notepad application may hold when a call starts
Layouts ==
    { <<Untitled>>,
      <<Log>>,
      <<Untitled, Notes, Log>>,
      <<Untitled, Draft>>,
      <<Untitled, Untitled, Log>>,
      Distinct(max_tabs - 1) \o <<Log>>,
      Distinct(max_tabs) \o <<Log>>,
      Distinct(max_tabs + 1) }

Markers == {DefaultMarker}

-----------------------------------------------------------------------------
(* The desktop *)

Pids == 1..MaxProcs

\* the handle of the Notepad window of process p (None: a Notepad the user started)
HandleOf(p) == p + 1

NotepadWindow(p) == [hwnd |-> HandleOf(p), pid |-> p, kind |-> "notepad"]

\* windows find_notepad_window must skip
Decoys ==
    << [hwnd |-> MaxProcs + 2, pid |-> None, kind |-> "broken"],
       [hwnd |-> MaxProcs + 3, pid |-> None, kind |-> "hidden"],
       [hwnd |-> MaxProcs + 4, pid |-> None, kind |-> "disabled"],
       [hwnd |-> MaxProcs + 5, pid |-> None, kind |-> "other"] >>

Handles == 1..(MaxProcs + 1)

IsWindowVisible(w) == w.kind # "hidden"

IsWindowEnabled(w) == w.kind # "disabled"

GetClassName(w) == IF w.kind = "other" THEN <<"Calc">> ELSE <<"Notepad">>

WindowText(w) == IF w.kind = "other" THEN <<"Calculator">> ELSE tabs[cur]

\* the condition under which _enum appends a window
EnumMatches(w) ==
    /\ w.kind # "broken"
    /\ IsWindowVisible(w) /\ IsWindowEnabled(w)
    /\ (Contains(<<"Notepad">>, WindowText(w)) \/ Contains(<<"Notepad">>, GetClassName(w)))

find_notepad_window ==
    IF ~win32_available THEN None
    ELSE LET hwnds == SelectSeq(windows, EnumMatches)
         IN  IF hwnds # <<>> THEN hwnds[1].hwnd ELSE None

\* the Notepad windows that are open, whatever find_notepad_window can see
OpenHandles == {windows[i].hwnd : i \in {j \in 1..Len(windows) : windows[j].kind = "notepad"}}

HasWindow(p) == HandleOf(p) \in OpenHandles

Without(h) == SelectSeq(windows, LAMBDA w : w.hwnd # h)

Range(seq) == {seq[k] : k \in 1..Len(seq)}

\* Python truthiness of an Optional[int]
Truthy(h) == h # None /\ h # 0

-----------------------------------------------------------------------------
(* Frames *)

NoEnsure == [timeout |-> 0, hwnd |-> None, proc |-> None, end |-> 0]

NoTab == [marker |-> <<>>, create_if_missing |-> FALSE,
          hwnd |-> None, proc |-> None, title |-> <<>>, seen_titles |-> <<>>, i |-> 0]

NoClose == [hwnd |-> None, proc |-> None, timeout |-> 0, force |-> FALSE,
            closed |-> FALSE, end |-> 0]

NoRet == [fn |-> "none", kind |-> "none", hwnd |-> None, proc |-> None, ok |-> FALSE]

\* launches: calls of open_notepad; spawned: the process it started; first: the
\* result of the first query; polls: queries of the wait loop; seen: the window
\* a poll found; expired: the wait loop ran out of time
NoEobs == [launches |-> 0, spawned |-> None, first |-> None, polls |-> 0,
           seen |-> None, expired |-> FALSE]

\* The record of a top-level call.  Its arguments (create, c_hwnd, c_proc, c_force);
\* the calls of each gesture and how many did not raise; hwnd: the handle
\* ensure_notepad gave ensure_notepad_tab; hit: the first title held the marker;
\* marker_seen: a title read after a next-tab gesture held it; repeat: a title read
\* again; stable / before: the desktop since the first query, the previous call's
\* handle; located, posted, confirm, steps: what close_notepad found, asked to
\* close, saw gone, and the steps it took; marker: the marker searched for;
\* proc: the process ensure_notepad gave ensure_notepad_tab; calm: since the
\* first title was read from the open window the desktop did not change and no
\* gesture raised; lookups: queries close_notepad made before it posted WM_CLOSE;
\* fresh: what a query gives when WM_CLOSE is posted
NoObs == [create |-> FALSE, c_hwnd |-> None, c_proc |-> None, c_force |-> FALSE,
          marker |-> <<>>, proc |-> None, calm |-> FALSE, lookups |-> 0, fresh |-> None,
          focus |-> 0, next_tab |-> 0, new_tab |-> 0, new_tab_ok |-> 0,
          fallback |-> 0, fallback_ok |-> 0, write |-> 0, write_ok |-> 0,
          hwnd |-> None, hit |-> FALSE, repeat |-> FALSE, marker_seen |-> FALSE,
          requeried |-> FALSE, stable |-> FALSE, before |-> None,
          located |-> None, posted |-> None, confirm |-> {}, steps |-> <<>>]

NoPrev == None

\* Python values that are used as numbers: an int, and a bool, which is an int
\* (True is 1, False is 0) of another type
PyInt(n) == <<"int", n>>

PyBool(b) == <<"bool", IF b THEN 1 ELSE 0>>

\* the number such a value stands for
Number(x) == x[2]

NoArgs == [verbose |-> PyBool(FALSE), activity_type |-> "none",
           interval_minutes |-> 0]

\* the thread of main: where it is (unstarted, loop, wait, call, ended), the
\* parameters run_loop was called with, and the last move of the mouse
NoThread == [state |-> "unstarted", activity_type |-> "none",
             interval_seconds |-> PyInt(0), max_offset |-> PyInt(0),
             verbose |-> PyBool(FALSE), move |-> <<0, 0>>]

Init ==
    /\ win32_available \in BOOLEAN
    /\ windows = Decoys
    /\ procs = [p \in Pids |-> "unborn"]
    /\ tabs = <<Untitled>>
    /\ cur = 1
    /\ now = 0
    /\ pc = "idle"
    /\ stack = <<>>
    /\ top = "none"
    /\ en = NoEnsure
    /\ tb = NoTab
    /\ cl = NoClose
    /\ ret = NoRet
    /\ eobs = NoEobs
    /\ obs = NoObs
    /\ prev = NoPrev
    /\ args = NoArgs
    /\ stop_event = FALSE
    /\ t = NoThread

-----------------------------------------------------------------------------
(* Changes of the desktop the program does not make.  A change of the       *)
(* windows ends the stretch over which two calls see the same desktop.      *)

Disturbed == /\ pc # "done"
             /\ ~(pc \in {"tab_loop", "tab_reread"} /\ Len(tabs) > MaxRing)
             /\ prev' = None
             /\ obs' = [obs EXCEPT !.stable = FALSE, !.calm = FALSE]

UserOpensNotepad ==
    /\ ~HasWindow(None)
    /\ windows' = <<NotepadWindow(None)>> \o windows
    /\ Disturbed
    /\ UNCHANGED <<win32_available, procs, tabs, cur, now, pc, stack, top,
                   en, tb, cl, ret, eobs, sim>>

UserClosesNotepad ==
    /\ HasWindow(None)
    /\ windows' = Without(HandleOf(None))
    /\ Disturbed
    /\ UNCHANGED <<win32_available, procs, tabs, cur, now, pc, stack, top,
                   en, tb, cl, ret, eobs, sim>>

NotepadWindowAppears ==
    \E p \in Pids :
        /\ procs[p] = "running"
        /\ ~HasWindow(p)
        /\ windows' = <<NotepadWindow(p)>> \o windows
        /\ Disturbed
        /\ UNCHANGED <<win32_available, procs, tabs, cur, now, pc, stack, top,
                       en, tb, cl, ret, eobs, sim>>

NotepadExits ==
    \E p \in Pids :
        /\ procs[p] = "running"
        /\ procs' = [procs EXCEPT ![p] = "exited"]
        /\ windows' = Without(HandleOf(p))
        /\ Disturbed
        /\ UNCHANGED <<win32_available, tabs, cur, now, pc, stack, top,
                       en, tb, cl, ret, eobs, sim>>

-----------------------------------------------------------------------------
(* Calls and returns *)

\* the outer caller invokes fn
Begin(fn) ==
    /\ pc = "idle"
    /\ top' = fn
    /\ UNCHANGED <<now, ret, eobs>>

\* the outer call is over: its frames and what it returned are dropped
Finish ==
    /\ pc = "done"
    /\ pc' = "idle"
    /\ top' = "none"
    /\ now' = 0
    /\ ret' = NoRet
    /\ obs' = NoObs
    /\ eobs' = NoEobs
    /\ en' = NoEnsure
    /\ tb' = NoTab
    /\ cl' = NoClose
    /\ tabs' = <<Untitled>>
    /\ cur' = 1
    /\ UNCHANGED <<win32_available, windows, procs, stack, prev, sim>>

\* a function returns a value to its caller
Return(fn, h, p, ok) ==
    /\ ret' = [fn |-> fn, kind |-> "value", hwnd |-> h, proc |-> p, ok |-> ok]
    /\ pc' = IF stack = <<>> THEN "done" ELSE Head(stack)
    /\ stack' = IF stack = <<>> THEN <<>> ELSE Tail(stack)

\* the locals of ensure_notepad_tab that later statements still read
Live(frame) == [NoTab EXCEPT !.marker = frame.marker,
                             !.create_if_missing = frame.create_if_missing]

\* the failure swallowed: the function returns (None, None)
RaiseSwallowed ==
    /\ Return("ensure_notepad", None, None, FALSE)
    /\ UNCHANGED <<tb, cl>>

\* an exception no caller catches unwinds every frame
Raise ==
    /\ ret' = [fn |-> top, kind |-> "raise", hwnd |-> None, proc |-> None, ok |-> FALSE]
    /\ pc' = "done"
    /\ stack' = <<>>
    /\ tb' = NoTab
    /\ cl' = NoClose

\* win32gui.EnumWindows can fail (pywintypes.error); find_notepad_window calls it
\* outside its try, and so do the callers of find_notepad_window
EnumMayRaise == win32_available

\* the error of EnumWindows, which no caller catches, unwinds every frame
RaiseEnum ==
    /\ ret' = [fn |-> top, kind |-> "error", hwnd |-> None, proc |-> None, ok |-> FALSE]
    /\ pc' = "done"
    /\ stack' = <<>>
    /\ tb' = NoTab
    /\ cl' = NoClose

-----------------------------------------------------------------------------
(* ensure_notepad *)

\* the test inverted
AlreadyOpenInverted(hwnd) == hwnd = None

\* `if hwnd is not None` after the first query
AlreadyOpen(hwnd) == hwnd # None

\* the process handle returned with a window that was already open
ExistingOwner(proc) == None

\* the process handle is lost on the way out
OwnerDropped(proc) == None

\* the process handle returned after a launch: `return hwnd, proc` / `return None, proc`
Owner(proc) == proc

\* one poll too many
StillWaitingAtEnd(clock, end) == clock <= end

\* `while time.time() < end`
StillWaiting(clock, end) == clock < end

CallEnsure ==
    /\ Begin("ensure_notepad")
    /\ \E timeout \in 0..MaxTimeout : en' = [NoEnsure EXCEPT !.timeout = timeout]
    /\ pc' = "ensure_find"
    /\ prev' = None
    /\ UNCHANGED <<env, stack, tb, cl, obs, sim>>

\* hwnd = find_notepad_window(); if hwnd is not None: return hwnd, None
ensure_notepad_find ==
    /\ pc = "ensure_find"
    /\ \/ LET hwnd == find_notepad_window
          IN  /\ eobs' = [eobs EXCEPT !.first = hwnd]
              /\ obs' = [obs EXCEPT !.stable = TRUE]
              /\ IF AlreadyOpen(hwnd)
                 THEN /\ Return("ensure_notepad", hwnd, ExistingOwner(en.proc), TRUE)
                      /\ UNCHANGED en
                 ELSE /\ pc' = "ensure_launch"
                      /\ en' = [en EXCEPT !.hwnd = hwnd]
                      /\ UNCHANGED <<ret, stack>>
              /\ UNCHANGED <<tb, cl>>
       \/ \* EnumWindows raises
          /\ EnumMayRaise
          /\ RaiseEnum
          /\ UNCHANGED <<en, eobs, obs>>
    /\ UNCHANGED <<env, now, top, prev, sim>>

\* the process open_notepad starts, when the system lets it start one
Spawned ==
    IF \E p \in Pids : procs[p] = "unborn"
    THEN {CHOOSE p \in Pids :
            procs[p] = "unborn" /\ \A q \in Pids : procs[q] = "unborn" => p <= q}
    ELSE {}

\* proc = open_notepad(); if not win32_available: return None, proc
ensure_notepad_launch ==
    /\ pc = "ensure_launch"
    /\ \/ \E p \in Spawned :
            /\ procs' = [procs EXCEPT ![p] = "running"]
            /\ eobs' = [eobs EXCEPT !.launches = @ + 1, !.spawned = p]
            /\ IF ~win32_available
               THEN /\ Return("ensure_notepad", None, Owner(p), TRUE)
                    /\ en' = [en EXCEPT !.proc = p]
               ELSE /\ en' = [en EXCEPT !.proc = p, !.end = now + en.timeout]
                    /\ pc' = "ensure_poll"
                    /\ UNCHANGED <<ret, stack>>
            /\ UNCHANGED <<tb, cl>>
       \/ \* subprocess.Popen raises
          /\ eobs' = [eobs EXCEPT !.launches = @ + 1]
          /\ Raise
          /\ UNCHANGED <<procs, en>>
    /\ UNCHANGED <<win32_available, windows, tabs, cur, now, top, obs, prev, sim>>

\* while time.time() < end: hwnd = find_notepad_window(); if hwnd: return hwnd, proc
ensure_notepad_poll ==
    /\ pc = "ensure_poll"
    /\ \/ /\ IF StillWaiting(now, en.end)
             THEN LET hwnd == find_notepad_window
                  IN  IF Truthy(hwnd)
                      THEN /\ Return("ensure_notepad", hwnd, Owner(en.proc), TRUE)
                           /\ eobs' = [eobs EXCEPT !.polls = @ + 1, !.seen = hwnd]
                           /\ UNCHANGED now
                      ELSE /\ now' = now + 1
                           /\ eobs' = [eobs EXCEPT !.polls = @ + 1]
                           /\ UNCHANGED <<pc, stack, ret>>
             ELSE /\ Return("ensure_notepad", None, Owner(en.proc), TRUE)
                  /\ eobs' = [eobs EXCEPT !.expired = TRUE]
                  /\ UNCHANGED now
          /\ UNCHANGED <<tb, cl>>
       \/ \* EnumWindows raises in a poll
          /\ StillWaiting(now, en.end)
          /\ EnumMayRaise
          /\ RaiseEnum
          /\ eobs' = [eobs EXCEPT !.polls = @ + 1]
          /\ UNCHANGED now
    /\ UNCHANGED <<env, top, en, obs, prev, sim>>

-----------------------------------------------------------------------------
(* focus_notepad *)

\* whether focus_notepad(hwnd) reaches ShowWindow / SetForegroundWindow
FocusCalls(hwnd) == IF hwnd # None /\ win32_available THEN 1 ELSE 0

-----------------------------------------------------------------------------
(* ensure_notepad_tab *)
(* pyautogui is imported unconditionally by the module, so the            *)
(* `pyautogui is None` test of the function never raises.                 *)

IsOpen(hwnd) == \E k \in 1..Len(windows) : windows[k].hwnd = hwnd

\* the title of the active tab read without win32gui
GetWindowTextAnyway(hwnd) == {tabs[cur]}

\* the titles `win32gui.GetWindowText(hwnd) or ''` can give
GetWindowText(hwnd) ==
    IF win32_available /\ hwnd # None
    THEN IF IsOpen(hwnd)
         THEN {WindowText(CHOOSE w \in {windows[k] : k \in 1..Len(windows)} : w.hwnd = hwnd)}
         ELSE {<<>>}
    ELSE {<<>>}

\* whether the read of the title can raise instead (the window is gone)
ReadMayRaise(hwnd) == win32_available /\ hwnd # None /\ ~IsOpen(hwnd)

\* `if hwnd is None and proc is None`
NothingOpened(hwnd, proc) == hwnd = None /\ proc = None

\* the title compared with the marker instead of searched for it
MarkerIs(marker, title) == title = marker

\* `marker in title`
MarkerIn(marker, title) == Contains(marker, title)

\* a repeated title goes unnoticed
SeenNever(title, seen_titles) == FALSE

\* `new_title in seen_titles`
Seen(title, seen_titles) == \E k \in 1..Len(seen_titles) : seen_titles[k] = title

\* `for _ in range(max_tabs)` has iterations left
InRange(i) == i < max_tabs

\* the flag ignored
MayCreateAlways(create_if_missing) == TRUE

\* `if create_if_missing`
MayCreate(create_if_missing) == create_if_missing

\* a key gesture reaches Notepad when one of its windows is open
Delivered == OpenHandles # {}

\* Ctrl+Tab leaves the active tab where it is
NextTabStuck(c, n) == c

\* the tab Ctrl+Tab makes active: the next one of the ring
NextTab(c, n) == (c % n) + 1

CallTab ==
    /\ Begin("ensure_notepad_tab")
    /\ \E marker \in Markers, create_if_missing \in BOOLEAN :
          /\ tb' = [NoTab EXCEPT !.marker = marker, !.create_if_missing = create_if_missing]
          /\ obs' = [NoObs EXCEPT !.create = create_if_missing, !.marker = marker]
    /\ \E timeout \in 0..MaxTimeout : en' = [NoEnsure EXCEPT !.timeout = timeout]
    /\ tabs' \in Layouts
    /\ cur' = 1
    /\ pc' = "ensure_find"
    /\ stack' = <<"tab_ensured">>
    /\ UNCHANGED <<win32_available, windows, procs, cl, prev, sim>>

\* hwnd, proc = ensure_notepad(timeout); focus_notepad(hwnd); time.sleep(0.15)
tab_ensured ==
    /\ pc = "tab_ensured"
    /\ IF NothingOpened(ret.hwnd, ret.proc)
       THEN /\ Return("ensure_notepad_tab", None, None, FALSE)
            /\ prev' = None
            /\ tb' = NoTab
            /\ UNCHANGED obs
       ELSE /\ tb' = [tb EXCEPT !.hwnd = ret.hwnd, !.proc = ret.proc]
            /\ obs' = [obs EXCEPT !.focus = @ + FocusCalls(ret.hwnd), !.hwnd = ret.hwnd,
                                  !.proc = ret.proc]
            /\ pc' = "tab_read"
            /\ UNCHANGED <<ret, stack, prev>>
    /\ en' = NoEnsure
    /\ eobs' = NoEobs
    /\ now' = 0
    /\ UNCHANGED <<env, top, cl, sim>>

\* title = win32gui.GetWindowText(hwnd) or ''; seen_titles.append(title)
tab_read ==
    /\ pc = "tab_read"
    /\ \/ \E title \in GetWindowText(tb.hwnd) :
            /\ tb' = [tb EXCEPT !.title = title, !.seen_titles = <<title>>, !.i = 0]
            /\ obs' = [obs EXCEPT !.hit = Contains(tb.marker, title),
                                  !.calm = win32_available /\ tb.hwnd # None /\ IsOpen(tb.hwnd)]
            /\ pc' = "tab_loop"
       \/ \* GetWindowText raises: except Exception: pass
          /\ ReadMayRaise(tb.hwnd)
          /\ pc' = "tab_create"
          /\ UNCHANGED <<tb, obs>>
    /\ UNCHANGED <<env, now, stack, top, en, cl, ret, eobs, prev, sim>>

\* for _ in range(max_tabs): if marker in title: return hwnd; pyautogui.hotkey('ctrl', 'tab')
tab_loop ==
    /\ pc = "tab_loop"
    /\ IF ~InRange(tb.i)
       THEN /\ pc' = "tab_create"
            /\ tb' = Live(tb)
            /\ UNCHANGED <<ret, stack, cur, obs, prev>>
       ELSE IF MarkerIn(tb.marker, tb.title)
       THEN /\ Return("ensure_notepad_tab", tb.hwnd, None, TRUE)
            /\ prev' = IF tb.i = 0 /\ obs.stable THEN tb.hwnd ELSE None
            /\ obs' = [obs EXCEPT !.before = prev]
            /\ tb' = NoTab
            /\ UNCHANGED cur
       ELSE /\ UNCHANGED <<ret, stack, prev>>
            /\ \/ /\ pc' = "tab_reread"
                  /\ cur' = IF Delivered THEN NextTab(cur, Len(tabs)) ELSE cur
                  /\ obs' = [obs EXCEPT !.next_tab = @ + 1, !.stable = FALSE]
                  /\ UNCHANGED tb
               \/ \* the gesture raises: except Exception: pass
                  /\ pc' = "tab_create"
                  /\ obs' = [obs EXCEPT !.next_tab = @ + 1, !.stable = FALSE,
                                        !.calm = FALSE]
                  /\ tb' = Live(tb)
                  /\ UNCHANGED cur
    /\ UNCHANGED <<win32_available, windows, procs, tabs, now, top, en, cl, eobs, sim>>

\* new_title = ...; if new_title in seen_titles: break; seen_titles.append(new_title)
tab_reread ==
    /\ pc = "tab_reread"
    /\ \/ \E new_title \in GetWindowText(tb.hwnd) :
            /\ obs' = [obs EXCEPT !.repeat = new_title \in Range(tb.seen_titles),
                                  !.marker_seen = @ \/ Contains(tb.marker, new_title)]
            /\ IF Seen(new_title, tb.seen_titles)
               THEN /\ pc' = "tab_create"
                    /\ tb' = Live(tb)
               ELSE /\ pc' = "tab_loop"
                    /\ tb' = [tb EXCEPT !.seen_titles = Append(@, new_title),
                                        !.title = new_title, !.i = @ + 1]
       \/ /\ ReadMayRaise(tb.hwnd)
          /\ pc' = "tab_create"
          /\ tb' = Live(tb)
          /\ UNCHANGED obs
    /\ UNCHANGED <<env, now, stack, top, en, cl, ret, eobs, prev, sim>>

\* the calls of pyautogui.write that return: the marker is typed or the call raises
Written == {0, 1}

\* if create_if_missing: hotkey('ctrl', 't'), on failure hotkey('ctrl', 'n'),
\* finally write(marker) and press('enter') twice, failures swallowed; else return None
tab_create ==
    /\ pc = "tab_create"
    /\ IF ~MayCreate(tb.create_if_missing)
       THEN /\ Return("ensure_notepad_tab", None, None, FALSE)
            /\ tb' = NoTab
            /\ UNCHANGED <<obs, tabs, cur>>
       ELSE /\ pc' = "tab_requery"
            /\ UNCHANGED <<tb, ret, stack>>
            /\ \E w \in Written :
               \/ \* Ctrl+T opens a tab
                  /\ obs' = [obs EXCEPT !.new_tab = @ + 1, !.new_tab_ok = @ + 1,
                                        !.write = @ + 1, !.write_ok = @ + w]
                  /\ IF Delivered
                     THEN tabs' = Append(tabs, Untitled) /\ cur' = Len(tabs) + 1
                     ELSE UNCHANGED <<tabs, cur>>
               \/ \* Ctrl+T raises, Ctrl+N starts a new document
                  /\ obs' = [obs EXCEPT !.new_tab = @ + 1, !.fallback = @ + 1,
                                        !.fallback_ok = @ + 1,
                                        !.write = @ + 1, !.write_ok = @ + w]
                  /\ IF Delivered
                     THEN tabs' = [tabs EXCEPT ![cur] = Untitled]
                     ELSE UNCHANGED tabs
                  /\ UNCHANGED cur
               \/ \* both raise
                  /\ obs' = [obs EXCEPT !.new_tab = @ + 1, !.fallback = @ + 1,
                                        !.write = @ + 1, !.write_ok = @ + w]
                  /\ UNCHANGED <<tabs, cur>>
    /\ prev' = None
    /\ UNCHANGED <<win32_available, windows, procs, now, top, en, cl, eobs, sim>>

\* the handle held since ensure_notepad is returned again
RequeryHeld == obs.hwnd

\* the handle returned after a tab was created: hwnd = find_notepad_window()
Requery == find_notepad_window

\* time.sleep(0.2); hwnd = find_notepad_window(); if hwnd: focus_notepad(hwnd); return hwnd
tab_requery ==
    /\ pc = "tab_requery"
    /\ \/ LET hwnd == Requery
          IN  /\ obs' = [obs EXCEPT !.requeried = TRUE,
                                    !.focus = @ + (IF Truthy(hwnd) THEN FocusCalls(hwnd) ELSE 0)]
              /\ Return("ensure_notepad_tab", hwnd, None, Truthy(hwnd))
              /\ tb' = NoTab
              /\ UNCHANGED cl
       \/ \* EnumWindows raises
          /\ EnumMayRaise
          /\ RaiseEnum
          /\ obs' = [obs EXCEPT !.requeried = TRUE]
    /\ UNCHANGED <<env, now, top, en, eobs, prev, sim>>

-----------------------------------------------------------------------------
(* close_notepad *)

\* `if found is None or found != hwnd`
Gone(found, hwnd) == found = None \/ found # hwnd

\* `if proc.poll() is None`
Polls(proc) == procs[proc] = "running"

\* processes `taskkill /f /im notepad.exe` finds
NotepadRunning == HasWindow(None) \/ \E p \in Pids : procs[p] = "running"

\* the desktop once the process behind proc is dead
Killed(proc) ==
    /\ procs' = [procs EXCEPT ![proc] = "exited"]
    /\ windows' = Without(HandleOf(proc))

\* the forced kill issued whatever force says
MayKillAlways(force) == TRUE

\* `if force` in the except of the terminate attempt
MayKill(force) == force

\* the by-name kill left out
LastResortSkipped(closed, force) == FALSE

\* `if not closed and force` before taskkill
LastResort(closed, force) == ~closed /\ force

\* the process handles an outer caller can hold
Held == {None} \cup {p \in Pids : procs[p] # "unborn"}

CallClose ==
    /\ Begin("close_notepad")
    /\ \E hwnd \in {None} \cup Handles, proc \in Held,
          timeout \in 0..MaxTimeout, force \in BOOLEAN :
          /\ cl' = [NoClose EXCEPT !.hwnd = hwnd, !.proc = proc,
                                   !.timeout = timeout, !.force = force]
          /\ obs' = [NoObs EXCEPT !.c_hwnd = hwnd, !.c_proc = proc, !.c_force = force]
    /\ pc' = "close_post"
    /\ prev' = None
    /\ UNCHANGED <<env, stack, en, tb, sim>>

\* closed = False; if hwnd is None: hwnd = find_notepad_window();
\* if hwnd is not None and win32_available: PostMessage(hwnd, WM_CLOSE), raise swallowed
close_post ==
    /\ pc = "close_post"
    /\ \/ LET hwnd == IF cl.hwnd = None THEN find_notepad_window ELSE cl.hwnd
              lookups == IF cl.hwnd = None THEN 1 ELSE 0
          IN  /\ IF hwnd # None /\ win32_available
                 THEN /\ cl' = [cl EXCEPT !.hwnd = hwnd, !.closed = FALSE,
                                          !.end = now + cl.timeout]
                      /\ obs' = [obs EXCEPT !.located = hwnd, !.posted = hwnd,
                                            !.lookups = lookups,
                                            !.fresh = find_notepad_window,
                                            !.steps = Append(@, "post")]
                      /\ pc' = "close_poll"
                 ELSE /\ cl' = [cl EXCEPT !.hwnd = hwnd, !.closed = FALSE]
                      /\ obs' = [obs EXCEPT !.located = hwnd, !.lookups = lookups]
                      /\ pc' = "close_proc"
              /\ UNCHANGED <<stack, tb, ret>>
       \/ \* EnumWindows raises in the lookup
          /\ cl.hwnd = None
          /\ EnumMayRaise
          /\ RaiseEnum
          /\ UNCHANGED obs
    /\ UNCHANGED <<env, now, top, en, eobs, prev, sim>>

\* while time.time() < end: found = find_notepad_window(); if gone: closed = True; break
close_poll ==
    /\ pc = "close_poll"
    /\ \/ /\ IF StillWaiting(now, cl.end)
             THEN LET found == find_notepad_window
                  IN  IF Gone(found, cl.hwnd)
                      THEN /\ cl' = [cl EXCEPT !.closed = TRUE]
                           /\ obs' = [obs EXCEPT !.confirm = @ \cup {"window"}]
                           /\ pc' = "close_proc"
                           /\ UNCHANGED now
                      ELSE /\ now' = now + 1
                           /\ UNCHANGED <<cl, obs, pc>>
             ELSE /\ pc' = "close_proc"
                  /\ UNCHANGED <<cl, obs, now>>
          /\ UNCHANGED <<stack, tb, ret>>
       \/ \* EnumWindows raises in a poll
          /\ StillWaiting(now, cl.end)
          /\ EnumMayRaise
          /\ RaiseEnum
          /\ UNCHANGED <<obs, now>>
    /\ UNCHANGED <<env, top, en, eobs, prev, sim>>

\* if not closed and proc is not None: poll, terminate, wait; on failure kill if force
close_proc ==
    /\ pc = "close_proc"
    /\ pc' = "close_taskkill"
    /\ IF ~cl.closed /\ cl.proc # None
       THEN IF ~Polls(cl.proc)
            THEN \* the process has exited already
                 /\ cl' = [cl EXCEPT !.closed = TRUE]
                 /\ obs' = [obs EXCEPT !.steps = Append(@, "poll")]
                 /\ UNCHANGED <<windows, procs>>
            ELSE \/ \* terminate() and wait() return
                    /\ cl' = [cl EXCEPT !.closed = TRUE]
                    /\ obs' = [obs EXCEPT !.confirm = @ \cup {"terminated"},
                                          !.steps = Append(@, "terminate")]
                    /\ Killed(cl.proc)
                 \/ \* terminate() or wait() raises, and force is not set
                    /\ ~MayKill(cl.force)
                    /\ obs' = [obs EXCEPT !.steps = Append(@, "terminate")]
                    /\ UNCHANGED <<cl, windows, procs>>
                 \/ \* terminate() or wait() raises; kill() and wait(2) return
                    /\ MayKill(cl.force)
                    /\ cl' = [cl EXCEPT !.closed = TRUE]
                    /\ obs' = [obs EXCEPT !.confirm = @ \cup {"killed"},
                                          !.steps = @ \o <<"terminate", "kill">>]
                    /\ Killed(cl.proc)
                 \/ \* terminate() or wait() raises; kill() or wait(2) raises
                    /\ MayKill(cl.force)
                    /\ obs' = [obs EXCEPT !.steps = @ \o <<"terminate", "kill">>]
                    /\ UNCHANGED <<cl, windows, procs>>
       ELSE UNCHANGED <<cl, obs, windows, procs>>
    /\ UNCHANGED <<win32_available, tabs, cur, now, stack, top, en, tb, ret, eobs, prev, sim>>

\* if not closed and force: subprocess.run(['taskkill', ...], check=True); return closed
close_taskkill ==
    /\ pc = "close_taskkill"
    /\ IF LastResort(cl.closed, cl.force)
       THEN \/ \* taskkill ends every Notepad process
               /\ NotepadRunning
               /\ procs' = [p \in Pids |-> IF procs[p] = "running" THEN "exited" ELSE procs[p]]
               /\ windows' = SelectSeq(windows, LAMBDA w : w.kind # "notepad")
               /\ obs' = [obs EXCEPT !.confirm = @ \cup {"taskkill"},
                                     !.steps = Append(@, "taskkill")]
               /\ Return("close_notepad", None, None, TRUE)
            \/ \* taskkill fails or cannot be run
               /\ obs' = [obs EXCEPT !.steps = Append(@, "taskkill")]
               /\ Return("close_notepad", None, None, FALSE)
               /\ UNCHANGED <<windows, procs>>
       ELSE /\ Return("close_notepad", None, None, cl.closed)
            /\ UNCHANGED <<windows, procs, obs>>
    /\ cl' = NoClose
    /\ UNCHANGED <<win32_available, tabs, cur, now, top, en, tb, eobs, prev, sim>>

-----------------------------------------------------------------------------
(* handler (activities/notepad.py), and main and run_loop of               *)
(* simulate_activity.py: main parses the command line and starts run_loop  *)
(* in a daemon thread; Ctrl+C sets stop_event and main returns.            *)

\* timeout=5.0 of the two calls of handler, in poll intervals, within the bound
handler_timeout == MaxTimeout

\* the frames and records of a call that is over
Dropped ==
    /\ pc' = "idle"
    /\ stack' = <<>>
    /\ top' = "none"
    /\ now' = 0
    /\ ret' = NoRet
    /\ obs' = NoObs
    /\ eobs' = NoEobs
    /\ en' = NoEnsure
    /\ tb' = NoTab
    /\ cl' = NoClose
    /\ tabs' = <<Untitled>>
    /\ cur' = 1
    /\ prev' = None

\* the tab rings the desktop can change under while they are cycled
ShortLayouts == {l \in Layouts : Len(l) <= MaxRing}

\* def run_loop(activity_type, interval_seconds, stop_event, max_offset=5, verbose=False)
run_loop_params == <<"activity_type", "interval_seconds", "stop_event", "max_offset", "verbose">>

run_loop_defaults == [max_offset |-> PyInt(5), verbose |-> PyBool(FALSE)]

\* a call with positional arguments a: the i-th argument is bound to the i-th
\* parameter, the parameters left over take their defaults
Bind(params, defaults, a) ==
    [n \in Range(params) |->
        LET i == CHOOSE k \in 1..Len(params) : params[k] = n
        IN  IF i <= Len(a) THEN a[i] ELSE defaults[n]]

\* max(5, int(args.interval_minutes * 60))
IntervalSeconds(minutes) == IF minutes * 60 > 5 THEN minutes * 60 ELSE 5

\* args = parse_args(); stop_event = threading.Event();
\* threading.Thread(target=run_loop, args=(args.activity_type, interval_seconds,
\* stop_event, args.verbose), daemon=True).start()
main ==
    /\ t.state = "unstarted"
    /\ pc = "idle"
    /\ \E verbose \in BOOLEAN, activity_type \in {"mouse", "notepad"} :
          LET a == [verbose |-> PyBool(verbose), activity_type |-> activity_type,
                    interval_minutes |-> 4]
              b == Bind(run_loop_params, run_loop_defaults,
                        <<a.activity_type, PyInt(IntervalSeconds(a.interval_minutes)),
                          <<"Event", 0>>, a.verbose>>)
          IN  /\ args' = a
              /\ t' = [NoThread EXCEPT !.state = "loop",
                                       !.activity_type = b.activity_type,
                                       !.interval_seconds = b.interval_seconds,
                                       !.max_offset = b.max_offset,
                                       !.verbose = b.verbose]
    /\ stop_event' = FALSE
    /\ UNCHANGED <<env, now, pc, stack, top, en, tb, cl, ret, eobs, obs, prev>>

\* except KeyboardInterrupt: stop_event.set()
KeyboardInterrupt ==
    /\ t.state \in {"loop", "wait", "call"}
    /\ ~stop_event
    /\ stop_event' = TRUE
    /\ UNCHANGED <<env, now, pc, stack, top, en, tb, cl, ret, eobs, obs, prev, args, t>>

\* main returns after the interrupt, and the daemon thread ends with the
\* process wherever it is
main_exit ==
    /\ stop_event
    /\ t.state \in {"loop", "wait", "call"}
    /\ t' = [t EXCEPT !.state = "ended"]
    /\ Dropped
    /\ UNCHANGED <<win32_available, windows, procs, args, stop_event>>

\* while not stop_event.is_set(): small_random_move(max_offset) or handler()
run_loop ==
    /\ t.state = "loop"
    /\ pc = "idle"
    /\ IF stop_event
       THEN /\ t' = [t EXCEPT !.state = "ended"]
            /\ UNCHANGED <<pc, stack, top, en, obs, tabs, cur>>
       ELSE IF t.activity_type = "mouse"
       THEN \* dx, dy = random.randint(-max_offset, max_offset); (0, 0) becomes (1, 0)
            /\ \E dx, dy \in (0 - Number(t.max_offset))..Number(t.max_offset) :
                  t' = [t EXCEPT !.state = "wait",
                                 !.move = IF dx = 0 /\ dy = 0 THEN <<1, 0>> ELSE <<dx, dy>>]
            /\ UNCHANGED <<pc, stack, top, en, obs, tabs, cur>>
       ELSE \* handler(): hwnd, proc = ensure_notepad(timeout=5.0)
            /\ t' = [t EXCEPT !.state = "call"]
            /\ top' = "handler"
            /\ pc' = "ensure_find"
            /\ stack' = <<"handler_ensured">>
            /\ en' = [NoEnsure EXCEPT !.timeout = handler_timeout]
            /\ obs' = NoObs
            /\ tabs' \in ShortLayouts
            /\ cur' = 1
    /\ UNCHANGED <<win32_available, windows, procs, now, tb, cl, ret, eobs, prev,
                   args, stop_event>>

\* handler: if hwnd: focus_notepad(hwnd); then
\* ensure_notepad_tab(marker='[Activity Simulation]', timeout=5.0, create_if_missing=True)
handler_ensured ==
    /\ pc = "handler_ensured"
    /\ tb' = [NoTab EXCEPT !.marker = DefaultMarker, !.create_if_missing = TRUE]
    /\ obs' = [NoObs EXCEPT !.create = TRUE, !.marker = DefaultMarker,
                            !.focus = IF Truthy(ret.hwnd) THEN FocusCalls(ret.hwnd) ELSE 0]
    /\ en' = [NoEnsure EXCEPT !.timeout = handler_timeout]
    /\ eobs' = NoEobs
    /\ now' = 0
    /\ pc' = "ensure_find"
    /\ stack' = <<"tab_ensured", "handler_tabbed">>
    /\ UNCHANGED <<env, top, cl, ret, prev, sim>>

\* handler: if hwnd: focus_notepad(hwnd); time.sleep(0.2);
\* typed = keyboard_activity.type_random_symbols(count=8, ...); print
handler_tabbed ==
    /\ pc = "handler_tabbed"
    /\ obs' = [obs EXCEPT !.focus = @ + (IF Truthy(ret.hwnd) THEN FocusCalls(ret.hwnd) ELSE 0)]
    /\ \/ Return("handler", None, None, TRUE)
       \/ \* pyautogui.write raises in type_random_symbols
          /\ ret' = [fn |-> "handler", kind |-> "error", hwnd |-> None, proc |-> None,
                     ok |-> FALSE]
          /\ pc' = "done"
          /\ stack' = <<>>
    /\ UNCHANGED <<env, now, top, en, tb, cl, eobs, prev, sim>>

\* the activity is over: if verbose: print(...); stop_event.wait(interval_seconds)
run_loop_wait ==
    /\ \/ t.state = "wait" /\ pc = "idle"
       \/ t.state = "call" /\ pc = "done" /\ ret.kind = "value"
    /\ t' = [t EXCEPT !.state = "loop"]
    /\ Dropped
    /\ UNCHANGED <<win32_available, windows, procs, args, stop_event>>

\* an exception of handler ends run_loop and with it the thread
run_loop_raise ==
    /\ t.state = "call"
    /\ pc = "done"
    /\ ret.kind # "value"
    /\ t' = [t EXCEPT !.state = "ended"]
    /\ Dropped
    /\ UNCHANGED <<win32_available, windows, procs, args, stop_event>>

-----------------------------------------------------------------------------

Next ==
    \/ Finish
    \/ UserOpensNotepad
    \/ UserClosesNotepad
    \/ NotepadWindowAppears
    \/ NotepadExits
    \/ CallEnsure
    \/ ensure_notepad_find
    \/ ensure_notepad_launch
    \/ ensure_notepad_poll
    \/ CallTab
    \/ tab_ensured
    \/ tab_read
    \/ tab_loop
    \/ tab_reread
    \/ tab_create
    \/ tab_requery
    \/ CallClose
    \/ close_post
    \/ close_poll
    \/ close_proc
    \/ close_taskkill

Spec == Init /\ [][Next]_vars

\* the program as started from the command line
NextMain ==
    \/ main
    \/ KeyboardInterrupt
    \/ main_exit
    \/ run_loop
    \/ run_loop_wait
    \/ run_loop_raise
    \/ handler_ensured
    \/ handler_tabbed
    \/ UserOpensNotepad
    \/ UserClosesNotepad
    \/ NotepadWindowAppears
    \/ NotepadExits
    \/ ensure_notepad_find
    \/ ensure_notepad_launch
    \/ ensure_notepad_poll
    \/ tab_ensured
    \/ tab_read
    \/ tab_loop
    \/ tab_reread
    \/ tab_create
    \/ tab_requery

SpecMain == Init /\ [][NextMain]_vars

\* close_notepad runs to its end: the interpreter goes on executing its
\* statements, and each wait in it is bounded (the poll loop by `end`,
\* proc.wait by its timeout) or ends with the command it runs (taskkill)
LiveSpec ==
    /\ Spec
    /\ WF_vars(close_post)
    /\ WF_vars(close_poll)
    /\ WF_vars(close_proc)
    /\ WF_vars(close_taskkill)

-----------------------------------------------------------------------------
(* Properties *)

\* ensure_notepad has just returned a value, to the outer caller or to ensure_notepad_tab
EnsureReturned ==
    /\ pc \in {"done", "tab_ensured"}
    /\ ret.fn = "ensure_notepad"
    /\ ret.kind = "value"

\* C1: when the first query of ensure_notepad finds a window, the call returns
\* (that handle, None) and open_notepad is not called in it: no query is made
\* again and no process is started.
ThmC1 ==
    (EnsureReturned /\ eobs.first # None) =>
        /\ ret.hwnd = eobs.first
        /\ ret.proc = None
        /\ eobs.launches = 0
        /\ eobs.spawned = None
        /\ eobs.polls = 0

\* C1 happens: a window was found at once while a process started earlier still runs
WitC1 ==
    /\ EnsureReturned
    /\ eobs.first # None
    /\ \E p \in Pids : procs[p] = "running"

\* C2 as stated: after a first query that found nothing, ensure_notepad has
\* launched once and returns the launched process, with the first window a poll
\* saw, or with None once the timeout has elapsed.
OrigC2 ==
    (EnsureReturned /\ eobs.first = None) =>
        /\ eobs.launches = 1
        /\ ret.proc # None
        /\ ret.proc = eobs.spawned
        /\ \/ ret.hwnd # None /\ ret.hwnd = eobs.seen
           \/ ret.hwnd = None /\ now >= en.timeout

\* C2 amended: as C2 when window introspection is available (a window is
\* returned only from a poll made before the deadline, None only once the
\* deadline has passed); without introspection the call returns
\* (None, process) directly after the launch, without polling or waiting.
ThmC2 ==
    (EnsureReturned /\ eobs.first = None) =>
        /\ eobs.launches = 1
        /\ ret.proc # None
        /\ ret.proc = eobs.spawned
        /\ procs[ret.proc] # "unborn"
        /\ IF win32_available
           THEN \/ /\ ret.hwnd # None
                   /\ ret.hwnd = eobs.seen
                   /\ eobs.polls >= 1
                   /\ now < en.end
                   /\ ~eobs.expired
                \/ /\ ret.hwnd = None
                   /\ eobs.seen = None
                   /\ eobs.expired
                   /\ now >= en.end
                   /\ en.end >= en.timeout
           ELSE /\ ret.hwnd = None
                /\ eobs.polls = 0
                /\ now = 0

\* C2 happens: the window appeared between the first and the second poll
WitC2 ==
    /\ EnsureReturned
    /\ eobs.first = None
    /\ ret.hwnd # None
    /\ eobs.polls = 2

\* the other outcome of C2: the wait ran out after MaxTimeout polls
WitC2Timeout ==
    /\ EnsureReturned
    /\ ret.hwnd = None
    /\ eobs.expired
    /\ eobs.polls = MaxTimeout

\* C8: a launch failure is raised, never swallowed: the call has ended with the
\* error of the launch exactly when open_notepad was called and started nothing, and then
\* ensure_notepad_tab (when it is the caller) has issued no focus, next-tab,
\* new-tab, fallback or write gesture.
ThmC8 ==
    /\ (pc = "done" /\ eobs.launches = 1 /\ eobs.spawned = None) => ret.kind = "raise"
    /\ ret.kind = "raise" =>
          /\ pc = "done"
          /\ ret.fn = top
          /\ eobs.first = None
          /\ eobs.launches = 1
          /\ eobs.spawned = None
          /\ obs.focus = 0 /\ obs.next_tab = 0 /\ obs.new_tab = 0
          /\ obs.fallback = 0 /\ obs.write = 0 /\ ~obs.requeried

\* C8 happens: ensure_notepad_tab ended with the launch error
WitC8 ==
    /\ pc = "done"
    /\ ret.kind = "raise"
    /\ top = "ensure_notepad_tab"
    /\ win32_available

\* ensure_notepad_tab has returned a value to the outer caller
TabReturned ==
    /\ pc = "done"
    /\ ret.fn = "ensure_notepad_tab"
    /\ ret.kind = "value"

NoCreation ==
    obs.new_tab = 0 /\ obs.fallback = 0 /\ obs.write = 0 /\ ~obs.requeried

\* C3: when the title read right after focusing holds the marker,
\* ensure_notepad_tab issues no next-tab, new-tab or fallback gesture and no
\* write, and returns the handle ensure_notepad gave it; a second call on the
\* unchanged desktop returns the handle the first one returned.
ThmC3 ==
    /\ (top = "ensure_notepad_tab" /\ obs.hit) => (obs.next_tab = 0 /\ NoCreation)
    /\ (TabReturned /\ obs.hit) =>
          /\ ret.hwnd # None
          /\ ret.hwnd = obs.hwnd
          /\ obs.before # None => ret.hwnd = obs.before

\* C3 happens: two successive calls found the marker in the first title
WitC3 ==
    /\ TabReturned
    /\ obs.hit
    /\ obs.before # None

\* C4: with create_if_missing false, ensure_notepad_tab never issues the new-tab
\* gesture, the fallback gesture or the write, and when no title it read holds
\* the marker it returns None (also when a next-tab gesture or a read raised).
ThmC4 ==
    /\ (top = "ensure_notepad_tab" /\ ~obs.create) => NoCreation
    /\ (TabReturned /\ ~obs.create /\ ~obs.hit /\ ~obs.marker_seen) => ret.hwnd = None

\* C4 happens: the ring was cycled until a title repeated and nothing was created
WitC4 ==
    /\ TabReturned
    /\ ~obs.create /\ ~obs.hit /\ ~obs.marker_seen
    /\ obs.hwnd # None
    /\ obs.repeat
    /\ obs.next_tab >= 2

\* the case of C4 in which the cycling ended on a failure, not on a repeated title
WitC4Failure ==
    /\ TabReturned
    /\ ~obs.create /\ ~obs.hit /\ ~obs.marker_seen
    /\ ~obs.repeat
    /\ obs.next_tab = 1

InLoop == pc \in {"tab_loop", "tab_reread"}

\* C5: one call issues at most max_tabs next-tab gestures and none after the
\* first title read again: once a repeated title is read the loop is left, and
\* inside the loop the gestures never outnumber the distinct titles seen (one
\* gesture when all titles are the same).
ThmC5 ==
    /\ obs.next_tab <= max_tabs
    /\ obs.repeat => ~InLoop
    /\ InLoop =>
          /\ obs.next_tab <= Len(tb.seen_titles)
          /\ Cardinality(Range(tb.seen_titles)) = Len(tb.seen_titles)

\* C5 happens: max_tabs gestures were issued and the call ended
WitC5 ==
    /\ TabReturned
    /\ obs.next_tab = max_tabs

\* the degenerate case of C5: the only title repeats after one gesture
WitC5Same ==
    /\ TabReturned
    /\ Len(tabs) = 1
    /\ obs.repeat
    /\ obs.next_tab = 1

\* C6: whenever a title read after a next-tab gesture holds the marker, up to
\* the read after the gesture at the cap, ensure_notepad_tab returns the handle
\* and issues no new-tab gesture, fallback gesture or write.
ClaimC6 ==
    (TabReturned /\ obs.marker_seen) => (ret.hwnd = obs.hwnd /\ NoCreation)

\* C6 holds of every gesture but the last one the cap allows
BelowCapC6 ==
    (TabReturned /\ obs.marker_seen /\ obs.next_tab < max_tabs) =>
        (ret.hwnd = obs.hwnd /\ NoCreation)

\* the case of C7: a window, no marker in any title, the titles wrapped, creation asked
CaseC7 ==
    /\ TabReturned
    /\ obs.create
    /\ obs.hwnd # None
    /\ ~obs.hit /\ ~obs.marker_seen
    /\ obs.repeat

\* C7 as stated: exactly one new-tab gesture goes out (the fallback only when
\* the primary failed), the marker is written exactly once, and the value
\* returned is what a fresh query finds.
OrigC7 ==
    CaseC7 =>
        /\ obs.new_tab_ok + obs.fallback_ok = 1
        /\ obs.fallback >= 1 => obs.new_tab_ok = 0
        /\ obs.write_ok = 1
        /\ obs.requeried
        /\ ret.hwnd = find_notepad_window

\* C7 amended: the primary new-tab gesture is attempted exactly once and the
\* fallback exactly when the primary raised, so at most one of them goes out
\* (none when both raise); the write is attempted exactly once whatever the
\* gestures did and may itself fail; the value returned is what a fresh query
\* finds after the write.
ThmC7 ==
    CaseC7 =>
        /\ obs.new_tab = 1
        /\ obs.fallback = 1 - obs.new_tab_ok
        /\ obs.fallback_ok <= obs.fallback
        /\ obs.new_tab_ok + obs.fallback_ok <= 1
        /\ obs.write = 1
        /\ obs.write_ok <= 1
        /\ obs.requeried
        /\ ret.hwnd = find_notepad_window

\* C7 happens: a tab was opened, the marker typed, and the fresh query gave
\* another value than the handle held before
WitC7 ==
    /\ CaseC7
    /\ obs.new_tab_ok = 1
    /\ obs.write_ok = 1
    /\ ret.hwnd # obs.hwnd

\* close_notepad has returned
CloseReturned ==
    /\ pc = "done"
    /\ ret.fn = "close_notepad"
    /\ ret.kind = "value"

\* C9 (its last clause, which the rest of the claim implies): close_notepad
\* never returns True while the window it asked to close is still open and no
\* step saw the window gone, terminated or killed the process, or ran the
\* by-name kill with success.
ClaimC9 ==
    ~ /\ CloseReturned
      /\ ret.ok
      /\ obs.confirm = {}
      /\ obs.posted # None
      /\ obs.posted \in OpenHandles

\* C10: called with no handle and no process while no Notepad window is found,
\* close_notepad returns True, with and without force.
ClaimC10 ==
    (CloseReturned /\ obs.c_hwnd = None /\ obs.c_proc = None /\ obs.located = None)
        => ret.ok

\* the place of a step of close_notepad in the escalation
Stage(s) ==
    CASE s = "post" -> 1
      [] s = "poll" -> 2
      [] s = "terminate" -> 2
      [] s = "kill" -> 3
      [] s = "taskkill" -> 4

\* the window close_notepad asked to close is still open
StillOpen == obs.posted # None /\ obs.posted \in OpenHandles

\* C11 as stated: with force set and the window still open after the polite
\* request, close_notepad returns True.
OrigC11 ==
    (CloseReturned /\ obs.c_force /\ StillOpen /\ ~("window" \in obs.confirm)) => ret.ok

\* what holds of the stages of close_notepad in every state
StagesC11 ==
    /\ top = "close_notepad" =>
          /\ Len(obs.steps) <= 4
          /\ \A i \in 1..Len(obs.steps), j \in 1..Len(obs.steps) :
                i < j => Stage(obs.steps[i]) < Stage(obs.steps[j])
    /\ pc = "close_poll" => (now <= cl.end /\ cl.end <= MaxTimeout + cl.timeout)
    /\ (CloseReturned /\ obs.c_force) =>
          /\ ret.ok <=> (obs.confirm # {} \/ "poll" \in Range(obs.steps))
          /\ ~ret.ok => (obs.steps # <<>> /\ obs.steps[Len(obs.steps)] = "taskkill")

\* C11 amended: with force set close_notepad always comes to an end, after at
\* most four stages in the order post/poll, terminate, kill, by-name kill, the
\* poll bounded by its timeout; it returns True exactly when a stage reported
\* closure, and False only after the by-name kill was run and failed.
ThmC11 ==
    /\ []StagesC11
    /\ (pc = "close_post" /\ cl.force) ~> (pc = "done" /\ top = "close_notepad")

\* C11 happens: the window stayed open, terminate and kill failed, and the
\* by-name kill ended Notepad
WitC11 ==
    /\ CloseReturned
    /\ obs.c_force
    /\ ret.ok
    /\ obs.steps = <<"post", "terminate", "kill", "taskkill">>
    /\ obs.confirm = {"taskkill"}

\* C12: close_notepad never throws: whichever external step fails, the call
\* ends by returning a boolean.
ClaimC12 ==
    (pc = "done" /\ top = "close_notepad") => ret.kind = "value"

\* C13: after every call of ensure_notepad and of ensure_notepad_tab, the
\* process the call started is terminated or its handle is returned to the
\* caller.
ClaimC13 ==
    /\ (EnsureReturned /\ pc = "done" /\ eobs.spawned # None /\ procs[eobs.spawned] = "running")
          => ret.proc = eobs.spawned
    /\ (TabReturned /\ obs.proc # None /\ procs[obs.proc] = "running")
          => ret.proc = obs.proc

\* C14: without window introspection find_notepad_window gives None;
\* ensure_notepad launches once and returns (None, process) without a poll, and
\* ends by raising only when the launch itself failed; ensure_notepad_tab reads
\* every title as empty (no focus call, no marker seen), issues one next-tab
\* gesture, which brings the empty title back, then when asked to create tries
\* the new-tab gesture and the write once each and queries again, and returns
\* None.
ThmC14 ==
    ~win32_available =>
        /\ find_notepad_window = None
        /\ ret.kind # "error"
        /\ EnsureReturned =>
              /\ ret.hwnd = None
              /\ ret.proc # None /\ ret.proc = eobs.spawned
              /\ eobs.launches = 1 /\ eobs.polls = 0
        /\ TabReturned =>
              /\ ret.hwnd = None
              /\ obs.hwnd = None /\ obs.proc # None
              /\ obs.focus = 0
              /\ ~obs.hit /\ ~obs.marker_seen
              /\ obs.next_tab = 1
              /\ IF obs.create
                 THEN obs.new_tab = 1 /\ obs.write = 1 /\ obs.requeried
                 ELSE NoCreation

\* C14 happens: a blind call cycled once, opened a tab and typed the marker
WitC14 ==
    /\ ~win32_available
    /\ TabReturned
    /\ obs.repeat
    /\ obs.new_tab_ok = 1
    /\ obs.write_ok = 1

\* the tabs after the first whose title holds the marker
Holders == {i \in 2..Len(tabs) : Contains(obs.marker, tabs[i])}

\* the case of C15: a call on an undisturbed open window whose tab titles are
\* pairwise distinct, the first without the marker, and the first title with
\* the marker fewer than max_tabs tabs after it
CaseC15 ==
    /\ TabReturned
    /\ obs.calm
    /\ Cardinality(Range(tabs)) = Len(tabs)
    /\ ~Contains(obs.marker, tabs[1])
    /\ Holders # {}
    /\ \A i \in Holders : (\A j \in Holders : i <= j) => i - 1 < max_tabs

\* C15: in that case ensure_notepad_tab issues exactly k next-tab gestures,
\* k the distance from the first tab to the first title with the marker,
\* leaves that tab active and returns the handle, creating nothing.
ThmC15 ==
    CaseC15 =>
        \E k \in 1..(max_tabs - 1) :
            /\ k + 1 \in Holders
            /\ \A i \in Holders : k + 1 <= i
            /\ obs.next_tab = k
            /\ cur = k + 1
            /\ ret.hwnd # None /\ ret.hwnd = obs.hwnd
            /\ NoCreation

\* C15 happens: Untitled, Notes, '[Activity Simulation] - Log' from Untitled
WitC15 ==
    /\ CaseC15
    /\ tabs = <<Untitled, Notes, Log>>
    /\ obs.next_tab = 2
    /\ ret.hwnd # None

\* C15 at the largest k: the marker max_tabs - 1 tabs after the start
WitC15Far ==
    /\ CaseC15
    /\ obs.next_tab = max_tabs - 1

\* C16: terminate is tried only on a supplied process and only when the window
\* poll did not report closure; kill only with force and after a terminate that
\* did not complete; taskkill only with force and when no earlier step reported
\* closure; without force neither kill nor taskkill is issued.
ThmC16 ==
    top = "close_notepad" =>
        LET steps == Range(obs.steps)
        IN  /\ "terminate" \in steps => (obs.c_proc # None /\ ~("window" \in obs.confirm))
            /\ "kill" \in steps =>
                  /\ obs.c_force
                  /\ "terminate" \in steps
                  /\ ~("terminated" \in obs.confirm)
            /\ "taskkill" \in steps =>
                  /\ obs.c_force
                  /\ obs.confirm \subseteq {"taskkill"}
                  /\ ~("poll" \in steps)
            /\ ~obs.c_force => (~("kill" \in steps) /\ ~("taskkill" \in steps))

\* C16 happens: without force a failed terminate is the last step, and the
\* call returns False
WitC16 ==
    /\ CloseReturned
    /\ ~obs.c_force
    /\ ~ret.ok
    /\ obs.steps = <<"post", "terminate">>

\* the other side of C16: with force the whole escalation ran and failed
WitC16Forced ==
    /\ CloseReturned
    /\ obs.c_force
    /\ ~ret.ok
    /\ obs.steps = <<"post", "terminate", "kill", "taskkill">>

\* C17: before close_notepad posts WM_CLOSE to a handle its caller supplied, it
\* queries the windows again and posts only to the handle that query finds.
ClaimC17 ==
    (top = "close_notepad" /\ obs.c_hwnd # None /\ obs.posted # None) =>
        /\ obs.lookups >= 1
        /\ obs.posted = obs.fresh

\* C19: ensure_notepad never returns (None, None), so ensure_notepad_tab never
\* takes its early return: every call that returns went on with what
\* ensure_notepad gave it, and when asked to create it either found the marker
\* and returned the handle or tried the new-tab gesture and the write and
\* queried again.
ThmC19 ==
    /\ EnsureReturned => ~NothingOpened(ret.hwnd, ret.proc)
    /\ TabReturned =>
          /\ ~NothingOpened(obs.hwnd, obs.proc)
          /\ obs.create =>
                \/ /\ obs.hit \/ obs.marker_seen
                   /\ NoCreation
                   /\ ret.hwnd = obs.hwnd
                \/ obs.new_tab = 1 /\ obs.write = 1 /\ obs.requeried

\* C19 happens: the wait for the window ran out, and ensure_notepad_tab went
\* on with (None, process) to the creation of a tab
WitC19 ==
    /\ TabReturned
    /\ win32_available
    /\ obs.hwnd = None
    /\ obs.proc # None
    /\ obs.requeried

\* a step polls for the window, or sends a next-tab, new-tab or fallback
\* gesture or the write
Gestures ==
    \/ eobs'.polls > eobs.polls
    \/ obs'.next_tab > obs.next_tab
    \/ obs'.new_tab > obs.new_tab
    \/ obs'.fallback > obs.fallback
    \/ obs'.write > obs.write

\* C18: once stop_event is set, the running operation makes no further poll of
\* its wait loop and sends no further gesture.
ClaimC18 == [][stop_event => ~Gestures]_vars

\* C20: run_loop runs with verbose equal to the --verbose flag and max_offset
\* at its default 5.
ClaimC20 ==
    t.state # "unstarted" =>
        /\ t.verbose = args.verbose
        /\ t.max_offset = PyInt(5)

====
